---- MODULE Spec2Model ----
(***************************************************************************)
(* Photo Critique App (src/app.py): a Streamlit script that is executed    *)
(* top to bottom on page load and again after every widget interaction.    *)
(* One action of this model is one such execution, triggered by the page   *)
(* load, a rerun, a change of the language selector, a change of the file  *)
(* uploader, or a press of Submit.                                         *)
(*                                                                         *)
(* Python strings are TLA+ strings (sequences of characters), so that the  *)
(* f-strings of the script are concatenations and a prefix is a SubSeq.    *)
(* Image bytes are sequences over ByteValues.                              *)
(***************************************************************************)
EXTENDS Integers, Sequences, FiniteSets, TLC

VARIABLES
    secrets,            \* st.secrets: the mapping of the hosting secret store
    genai_api_key,      \* the key genai.configure stored, this execution
    model,              \* the module-level GenerativeModel, this execution
    selected_language,  \* session state of the language selectbox
    uploaded_file,      \* session state of the file uploader
    run_state,          \* how the last execution of the script ended
    rendered,           \* the input widgets the last execution rendered
    elements,           \* the output elements the last execution rendered
    branch,             \* the branch the Submit handler ended in, last execution
    request,            \* the request sent to the endpoint in the last execution
    response,           \* what the endpoint did with it
    n_calls,            \* endpoint side: generate_content calls received so far
    last_request,       \* endpoint side: the request received most recently
    n_submits,          \* history: presses of Submit so far
    submits_with_file,  \* history: presses of Submit with a file selected
    last_sub,           \* history: file and language of the last such press
    resubmitted,        \* history: the last such press repeated the one before
    probe               \* a direct call of get_gemini_response (SpecPrompt)

vars == <<secrets, genai_api_key, model, selected_language, uploaded_file,
          run_state, rendered, elements, branch, request, response, n_calls,
          last_request, n_submits, submits_with_file, last_sub, resubmitted,
          probe>>

(***************************************************************************)
(* Bounds of the model.                                                    *)
(***************************************************************************)
MaxBytes == 2
MaxSubmits == 2
MaxPieces == 2

(***************************************************************************)
(* Inputs the environment supplies.                                        *)
(***************************************************************************)
\* the secret store has no API_KEY entry, an empty one, or a key
SecretStores == {[k \in {} |-> ""], [API_KEY |-> ""], [API_KEY |-> "key"]}

ByteValues == {0, 255}

RECURSIVE BytesUpTo(_)
BytesUpTo(n) ==
    IF n = 0 THEN {<<>>}
    ELSE LET shorter == BytesUpTo(n - 1)
         IN  shorter \cup {Append(s, b) : s \in {t \in shorter : Len(t) = n - 1},
                                         b \in ByteValues}

\* the MIME type the client declares for the upload; the uploader of line 92
\* filters on the file name's extension and leaves the declared type as sent
DeclaredTypes == {"image/jpeg", "image/png", "image/gif"}

None == [present |-> FALSE]

UploadedFiles ==
    {[present |-> TRUE, type |-> t, data |-> d] :
        t \in DeclaredTypes, d \in BytesUpTo(MaxBytes)}

\* what model.generate_content / response.text does for one call: a text, or
\* an exception: a quota or an auth rejection, a response whose .text raises
\* ValueError, an OS-level file-not-found raised inside the call
RemoteFailures ==
    {[type |-> "ResourceExhausted", msg |-> "429 Quota exceeded"],
     [type |-> "PermissionDenied", msg |-> "403 API key not valid"],
     [type |-> "ValueError", msg |-> "response.text requires a valid Part"],
     [type |-> "FileNotFoundError", msg |-> "[Errno 2] No such file or directory"]}

RemoteOutcomes ==
    {[kind |-> "text", text |-> t] : t \in {"OK", "## Positive Critique"}}
    \cup {[kind |-> "raise", type |-> e.type, msg |-> e.msg] :
            e \in RemoteFailures}

NoResponse == [kind |-> "none"]
NoCall == <<>>
NoKey == ""
NoModel == ""

(***************************************************************************)
(* Python's exception matching: FileNotFoundError is a subclass of         *)
(* Exception, and so is every other type raised here.                      *)
(***************************************************************************)
IsInstance(exc, cls) ==
    \/ cls = "Exception"
    \/ exc.type = cls

\* Image.open / st.image (lines 94-95): PIL identifies the format from the
\* leading bytes of the file whatever type was declared for it; an empty or
\* unrecognised file raises UnidentifiedImageError
MagicBytes == {255}

Image_open(data) == Len(data) > 0 /\ data[1] \in MagicBytes

(***************************************************************************)
(* Output elements.                                                        *)
(***************************************************************************)
StError(body) == [widget |-> "error", body |-> body]
StSubheader(body) == [widget |-> "subheader", body |-> body]
StWrite(body) == [widget |-> "write", body |-> body]

(***************************************************************************)
(* 2. Configure API key using Streamlit secrets (lines 12-21).  st.stop()  *)
(* ends the execution of the script at once.                               *)
(***************************************************************************)
MsgEmptyKey ==
    "Google API key not found in Streamlit Secrets! Please add it to the Secrets section of your app."
MsgNoKey ==
    "Google API key not found in Streamlit Secrets! Please add a secret named 'API_KEY' with your key."

\* variant: the emptiness check of line 14 is left out
M_ConfigureApiKey_no_empty_check(store) ==
    IF "API_KEY" \notin DOMAIN store
    THEN [stopped |-> TRUE, key |-> NoKey, elements |-> <<StError(MsgNoKey)>>]
    ELSE [stopped |-> FALSE, key |-> store["API_KEY"], elements |-> <<>>]

ConfigureApiKey(store) ==
    IF "API_KEY" \notin DOMAIN store
    THEN \* except KeyError
         [stopped |-> TRUE, key |-> NoKey, elements |-> <<StError(MsgNoKey)>>]
    ELSE IF store["API_KEY"] = ""
    THEN \* if not api_key
         [stopped |-> TRUE, key |-> NoKey, elements |-> <<StError(MsgEmptyKey)>>]
    ELSE [stopped |-> FALSE, key |-> store["API_KEY"], elements |-> <<>>]

(***************************************************************************)
(* 3. The model and the two functions (lines 28-68).                       *)
(***************************************************************************)
ModelName == "gemini-1.5-flash-8b"

\* variant: a failed call is tried once more
M_get_gemini_response_retry(input_prompt, image, language, remote) ==
    LET parts == <<"Language: " \o language \o "\n\n" \o input_prompt, image[1]>>
    IN  IF remote.kind = "raise"
        THEN [raised |-> TRUE, exc |-> [type |-> remote.type, msg |-> remote.msg],
              request |-> parts, calls |-> 2]
        ELSE [raised |-> FALSE, value |-> remote.text,
              request |-> parts, calls |-> 1]

\* variant: returns the response object's rendering, not response.text
M_get_gemini_response_repr(input_prompt, image, language, remote) ==
    LET parts == <<"Language: " \o language \o "\n\n" \o input_prompt, image[1]>>
    IN  IF remote.kind = "raise"
        THEN [raised |-> TRUE, exc |-> [type |-> remote.type, msg |-> remote.msg],
              request |-> parts, calls |-> 1]
        ELSE [raised |-> FALSE, value |-> "response: " \o remote.text,
              request |-> parts, calls |-> 1]

localized_prompt(input_prompt, language) ==
    "Language: " \o language \o "\n\n" \o input_prompt

\* `remote` is what model.generate_content and response.text do for this call
get_gemini_response(input_prompt, image, language, remote) ==
    LET parts == <<localized_prompt(input_prompt, language), image[1]>>
    IN  IF remote.kind = "raise"
        THEN [raised |-> TRUE, exc |-> [type |-> remote.type, msg |-> remote.msg],
              request |-> parts, calls |-> 1]
        ELSE [raised |-> FALSE, value |-> remote.text,
              request |-> parts, calls |-> 1]

\* variant: a missing file raises a generic error
M_get_image_content_generic(file) ==
    IF file # None
    THEN [raised |-> FALSE,
          value |-> <<[mime_type |-> file.type, data |-> file.data]>>]
    ELSE [raised |-> TRUE,
          exc |-> [type |-> "ValueError", msg |-> "File not uploaded"]]

\* variant: file.read() after Image.open has consumed the header, not getvalue()
M_get_image_content_read(file) ==
    IF file # None
    THEN [raised |-> FALSE,
          value |-> <<[mime_type |-> file.type, data |-> Tail(file.data)]>>]
    ELSE [raised |-> TRUE,
          exc |-> [type |-> "FileNotFoundError", msg |-> "File not uploaded"]]

get_image_content(file) ==
    IF file # None
    THEN [raised |-> FALSE,
          value |-> <<[mime_type |-> file.type, data |-> file.data]>>]
    ELSE [raised |-> TRUE,
          exc |-> [type |-> "FileNotFoundError", msg |-> "File not uploaded"]]

(***************************************************************************)
(* 4. Interface set-up (lines 82-95).                                      *)
(***************************************************************************)
LanguageNames == {"English", "Spanish", "French", "German"}

supported_languages ==
    [n \in LanguageNames |->
        CASE n = "English" -> "en"
          [] n = "Spanish" -> "es"
          [] n = "French" -> "fr"
          [] n = "German" -> "de"]

\* variant: the selected name is passed on, not its code
M_language_code_name(language_name) == language_name

language_code(language_name) == supported_languages[language_name]

(***************************************************************************)
(* 5. The Submit handler (lines 102-134).  The prompt literal is abridged  *)
(* to its opening; the script passes it on as one opaque string.           *)
(***************************************************************************)
InputPrompt ==
    "\n        Provide a constructive and detailed photographic critique"

\* the except clauses, tried in order (lines 129-134)
HandleException(exc, sent, resp, calls) ==
    IF IsInstance(exc, "FileNotFoundError")
    THEN [branch |-> "FileNotFoundError", elements |-> <<StError(exc.msg)>>,
          request |-> sent, response |-> resp, calls |-> calls]
    ELSE [branch |-> "Exception",
          elements |-> <<StError("An error occurred: " \o exc.msg)>>,
          request |-> sent, response |-> resp, calls |-> calls]

SubmitHandler(file, language, remote) ==
    LET image_data == get_image_content(file)
    IN  IF image_data.raised
        THEN HandleException(image_data.exc, NoCall, NoResponse, 0)
        ELSE LET r == get_gemini_response(InputPrompt, image_data.value,
                                          language, remote)
             IN  IF r.raised
                 THEN HandleException(r.exc, r.request, remote, r.calls)
                 ELSE [branch |-> "critique",
                       elements |-> <<StSubheader("Photo Critique"),
                                      StWrite(r.value)>>,
                       request |-> r.request, response |-> remote,
                       calls |-> r.calls]

(***************************************************************************)
(* One execution of the script, top to bottom, with the widget values of   *)
(* the session and `pressed` the value st.button returns.                  *)
(***************************************************************************)
Quiet == [branch |-> "none", elements |-> <<>>, request |-> NoCall,
          response |-> NoResponse, calls |-> 0]

Script(pressed, file, language_name, remote) ==
    LET cfg == ConfigureApiKey(secrets)
    IN  IF cfg.stopped
        THEN [end |-> "stopped", key |-> cfg.key, model |-> NoModel,
              rendered |-> {},
              out |-> [Quiet EXCEPT !.elements = cfg.elements]]
        ELSE IF file # None /\ ~Image_open(file.data)
        THEN \* line 94 raises outside any try: the execution ends there
             [end |-> "exception", key |-> cfg.key, model |-> ModelName,
              rendered |-> {"selectbox", "file_uploader"}, out |-> Quiet]
        ELSE [end |-> "completed", key |-> cfg.key, model |-> ModelName,
              rendered |-> {"selectbox", "file_uploader", "button"},
              out |-> IF pressed
                      THEN SubmitHandler(file, language_code(language_name),
                                         remote)
                      ELSE Quiet]

Run(pressed, file, language_name, remote) ==
    LET s == Script(pressed, file, language_name, remote)
    IN  /\ genai_api_key' = s.key
        /\ model' = s.model
        /\ run_state' = s.end
        /\ rendered' = s.rendered
        /\ elements' = s.out.elements
        /\ branch' = s.out.branch
        /\ request' = s.out.request
        /\ response' = s.out.response
        /\ n_calls' = n_calls + s.out.calls
        /\ last_request' = IF s.out.calls > 0 THEN s.out.request
                           ELSE last_request

(***************************************************************************)
(* The state before the first execution.                                   *)
(***************************************************************************)
NoSubmission == [file |-> None, language |-> "English"]

NoProbe == [template |-> "", language |-> "English", sent |-> NoCall,
            returned |-> NoResponse]

InitApp ==
    /\ genai_api_key = NoKey
    /\ model = NoModel
    /\ selected_language = "English"
    /\ uploaded_file = None
    /\ run_state = "not_started"
    /\ rendered = {}
    /\ elements = <<>>
    /\ branch = "none"
    /\ request = NoCall
    /\ response = NoResponse
    /\ n_calls = 0
    /\ last_request = NoCall
    /\ n_submits = 0
    /\ submits_with_file = 0
    /\ last_sub = NoSubmission
    /\ resubmitted = FALSE

Init ==
    /\ secrets \in SecretStores
    /\ InitApp
    /\ probe = NoProbe

(***************************************************************************)
(* The user's interactions; each triggers one execution of the script.     *)
(***************************************************************************)
history == <<n_submits, submits_with_file, last_sub, resubmitted>>

PageLoad ==
    /\ run_state = "not_started"
    /\ Run(FALSE, uploaded_file, selected_language, NoResponse)
    /\ UNCHANGED <<secrets, selected_language, uploaded_file, history, probe>>

Rerun ==
    /\ run_state # "not_started"
    /\ Run(FALSE, uploaded_file, selected_language, NoResponse)
    /\ UNCHANGED <<secrets, selected_language, uploaded_file, history, probe>>

SelectLanguage(name) ==
    /\ "selectbox" \in rendered
    /\ name # selected_language
    /\ selected_language' = name
    /\ Run(FALSE, uploaded_file, name, NoResponse)
    /\ UNCHANGED <<secrets, uploaded_file, history, probe>>

UploadFile(file) ==
    /\ "file_uploader" \in rendered
    /\ file # uploaded_file
    /\ uploaded_file' = file
    /\ Run(FALSE, file, selected_language, NoResponse)
    /\ UNCHANGED <<secrets, selected_language, history, probe>>

RemoveFile ==
    /\ "file_uploader" \in rendered
    /\ uploaded_file # None
    /\ uploaded_file' = None
    /\ Run(FALSE, None, selected_language, NoResponse)
    /\ UNCHANGED <<secrets, selected_language, history, probe>>

Submit(remote) ==
    /\ "button" \in rendered
    /\ n_submits < MaxSubmits
    /\ Run(TRUE, uploaded_file, selected_language, remote)
    /\ n_submits' = n_submits + 1
    /\ submits_with_file' =
           submits_with_file + (IF uploaded_file # None THEN 1 ELSE 0)
    /\ last_sub' = IF uploaded_file # None
                   THEN [file |-> uploaded_file, language |-> selected_language]
                   ELSE last_sub
    /\ resubmitted' =
           (/\ uploaded_file # None
            /\ last_sub = [file |-> uploaded_file,
                           language |-> selected_language])
    /\ UNCHANGED <<secrets, selected_language, uploaded_file, probe>>

Next ==
    \/ PageLoad
    \/ Rerun
    \/ \E name \in LanguageNames : SelectLanguage(name)
    \/ \E file \in UploadedFiles : UploadFile(file)
    \/ RemoveFile
    \/ \E remote \in RemoteOutcomes : Submit(remote)

Spec == Init /\ [][Next]_vars

(***************************************************************************)
(* get_gemini_response called directly, on any template and each language, *)
(* with a simulated endpoint.                                              *)
(***************************************************************************)
Pieces == {"", "a", "\n", "Language: "}

RECURSIVE Templates(_)
Templates(n) ==
    IF n = 0 THEN {""}
    ELSE {t \o p : t \in Templates(n - 1), p \in Pieces}

TestImage == [mime_type |-> "image/jpeg", data |-> <<255>>]

InitPrompt ==
    /\ secrets = [API_KEY |-> "key"]
    /\ InitApp
    /\ probe \in {[NoProbe EXCEPT !.template = t, !.language = l] :
                    t \in Templates(MaxPieces) \cup {InputPrompt},
                    l \in LanguageNames}

CallGetGeminiResponse(remote) ==
    /\ probe.sent = NoCall
    /\ LET r == get_gemini_response(probe.template, <<TestImage>>,
                                    language_code(probe.language), remote)
       IN  probe' = [probe EXCEPT !.sent = r.request, !.returned = remote]
    /\ UNCHANGED <<secrets, genai_api_key, model, selected_language,
                   uploaded_file, run_state, rendered, elements, branch,
                   request, response, n_calls, last_request, history>>

NextPrompt == \E remote \in RemoteOutcomes : CallGetGeminiResponse(remote)

SpecPrompt == InitPrompt /\ [][NextPrompt]_vars

(***************************************************************************)
(* Properties.                                                             *)
(***************************************************************************)
Submitted == branch # "none"

KeyMissing == "API_KEY" \notin DOMAIN secrets \/ secrets["API_KEY"] = ""

ImagePartOf(file) == [mime_type |-> file.type, data |-> file.data]

\* C1: a press of Submit with no file selected ends in the missing-input
\* failure, showing exactly 'File not uploaded', whatever the language and
\* whatever the endpoint would have done; no request is sent and no critique
\* is shown.
C1_MissingInput ==
    (Submitted /\ uploaded_file = None) =>
        /\ branch = "FileNotFoundError"
        /\ elements = <<StError("File not uploaded")>>
        /\ request = NoCall
        /\ response = NoResponse

C1_Witness ==
    /\ Submitted
    /\ uploaded_file = None
    /\ selected_language = "German"
    /\ n_submits = 2
    /\ n_calls = 1

\* C2 as stated: the instruction sent starts with 'Language: <name>', the
\* selected language's name, followed immediately by the unmodified template.
C2_LanguageNameDirective ==
    (probe.sent # NoCall) =>
        probe.sent[1] = "Language: " \o probe.language \o probe.template

\* C2 as amended: the instruction sent is 'Language: <code>', the selected
\* language's two-letter code, then a blank line, then the unmodified
\* template, for every template and each of the four selections.
C2_LanguageCodeDirective ==
    (probe.sent # NoCall) =>
        LET code == CASE probe.language = "English" -> "en"
                      [] probe.language = "Spanish" -> "es"
                      [] probe.language = "French" -> "fr"
                      [] probe.language = "German" -> "de"
            directive == "Language: " \o code
            text == probe.sent[1]
        IN  /\ Len(text) = Len(directive) + 2 + Len(probe.template)
            /\ SubSeq(text, 1, Len(directive)) = directive
            /\ SubSeq(text, Len(directive) + 1, Len(directive) + 2) = "\n\n"
            /\ SubSeq(text, Len(directive) + 3, Len(text)) = probe.template

C2_Witness ==
    /\ probe.sent # NoCall
    /\ probe.language = "French"
    /\ probe.template = "Language: \n"
    /\ probe.returned = [kind |-> "text", text |-> "OK"]

\* C3: when Submit is pressed with a file of bytes B and declared type M, the
\* image part handed to the endpoint is exactly (M, B).
C3_BytesPassThrough ==
    (Submitted /\ uploaded_file # None) =>
        /\ Len(request) = 2
        /\ request[2] = ImagePartOf(uploaded_file)
        /\ last_request = request

C3_Witness ==
    /\ Submitted
    /\ uploaded_file # None
    /\ uploaded_file.type = "image/png"
    /\ uploaded_file.data = <<255, 0>>
    /\ request # NoCall

\* C4: whenever the call to the endpoint raises, the submission ends in the
\* service-error outcome, 'An error occurred: <message>', and in no other.
C4_RemoteFailureIsServiceError ==
    (response.kind = "raise") =>
        /\ branch = "Exception"
        /\ elements = <<StError("An error occurred: " \o response.msg)>>

\* C5: while the API key is absent or empty, no execution configures the SDK,
\* creates the model, renders an input widget or calls the endpoint; each
\* ends stopped, showing the diagnostic.
C5_NoKeyNoService ==
    KeyMissing =>
        /\ genai_api_key = NoKey
        /\ model = NoModel
        /\ rendered = {}
        /\ n_calls = 0
        /\ request = NoCall
        /\ run_state \in {"not_started", "stopped"}
        /\ run_state = "stopped" =>
               elements \in {<<StError(MsgNoKey)>>, <<StError(MsgEmptyKey)>>}

C5_Witness ==
    /\ "API_KEY" \in DOMAIN secrets
    /\ KeyMissing
    /\ run_state = "stopped"
    /\ elements = <<StError(MsgEmptyKey)>>

\* C6: the endpoint has received as many calls as Submit was pressed with a
\* file selected; each such press adds exactly one call, and a press that
\* repeats the previous file and language sends the same request again.
C6_OneCallPerSubmission ==
    /\ [](n_calls = submits_with_file)
    /\ [][(submits_with_file' = submits_with_file + 1) =>
            /\ n_calls' = n_calls + 1
            /\ request' # NoCall
            /\ last_request' = request'
            /\ (last_sub' = last_sub) => (last_request' = last_request)]_vars

C6_Witness ==
    /\ n_submits = 2
    /\ submits_with_file = 2
    /\ n_calls = 2
    /\ resubmitted
    /\ response.kind = "raise"

\* C7: when the endpoint returns text T, the page shows exactly T under the
\* 'Photo Critique' heading, and the request was two parts: the instruction
\* text and the image.
C7_TextVerbatim ==
    (response.kind = "text") =>
        /\ branch = "critique"
        /\ elements = <<StSubheader("Photo Critique"), StWrite(response.text)>>
        /\ Len(request) = 2
        /\ request[1] = "Language: " \o supported_languages[selected_language]
                            \o "\n\n" \o InputPrompt
        /\ request[2] = ImagePartOf(uploaded_file)

C7_Witness ==
    /\ branch = "critique"
    /\ response = [kind |-> "text", text |-> "## Positive Critique"]
    /\ selected_language = "Spanish"

\* C8: a submission ends in the missing-input branch if and only if no file
\* was selected.
C8_MissingInputIffNoFile ==
    Submitted => ((branch = "FileNotFoundError") <=> (uploaded_file = None))

\* C9: no execution of the script ends in an exception that nothing caught.
C9_NothingEscapes == run_state # "exception"

AllowedTypes == {"image/jpeg", "image/png"}

\* C10: every image sent to the endpoint has non-empty bytes and a declared
\* type in the allow-list.

C10_AllowListedImage ==
    (request # NoCall) =>
        /\ request[2].data # <<>>
        /\ request[2].mime_type \in AllowedTypes

====
